---- MODULE Spec2Model ----
(* Model of github.com/dav-m85/mapper: field/column resolution            *)
(* (Mapper, MapperWithKey), derived views (Subset, ColumnsString,          *)
(* ColumnsStringPrefix, Marks, Addrs, Values) and option setters.          *)
(*                                                                         *)
(* Go strings are sequences of one-character strings; literal parts of a   *)
(* panic message are kept as single multi-character chunks.  Field         *)
(* positions and index() results are 0-based as in the source.             *)
EXTENDS Integers, Sequences, FiniteSets, TLC

VARIABLES target, key, columns, heap, mem, calls, res

vars == <<target, key, columns, heap, mem, calls, res>>

(* ---------------------------------------------------------------- bounds *)
MaxFields == 3
MaxReq == 3
MaxObjects == 2
MaxOpts == 2
MaxSub == 2
MaxCalls == 3

(* --------------------------------------------------------------- strings *)
Upper == {"A", "B"}

LowerOf(c) == IF c = "A" THEN "a" ELSE IF c = "B" THEN "b" ELSE c

ToLower(s) == [k \in 1..Len(s) |-> LowerOf(s[k])]

HasSuffix(s, suffix) ==
    /\ Len(s) >= Len(suffix)
    /\ SubSeq(s, Len(s) - Len(suffix) + 1, Len(s)) = suffix

RECURSIVE Join(_, _)
Join(elems, sep) ==
    IF Len(elems) = 0 THEN <<>>
    ELSE IF Len(elems) = 1 THEN elems[1]
    ELSE elems[1] \o sep \o Join(Tail(elems), sep)

IgnoreSuffix == <<",", "i", "g", "n", "o", "r", "e">>

(* ------------------------------------------------------------ fieldSlice *)
joker(fs) == \E k \in 1..Len(fs) : fs[k] = <<"*">>

index(fs, name) ==
    IF \E k \in 1..Len(fs) : fs[k] = name
    THEN (CHOOSE k \in 1..Len(fs) :
              fs[k] = name /\ \A j \in 1..(k - 1) : fs[j] # name) - 1
    ELSE -1

(* ------------------------------------------------------- reflect (types) *)
(* A type is [kind, elem, fields]: kind is "struct", "ptr" or "int"; elem  *)
(* is the kind of the pointed-to type ("none" unless kind = "ptr"); fields *)
(* are the fields of the struct (of the pointed-to struct for a pointer).  *)
Kind(t) == t.kind

ElemKind(t) == t.elem

IsExported_Any(f) == Len(f.Name) > 0

IsExported(f) == Len(f.Name) > 0 /\ f.Name[1] \in Upper

TagGet(tag, k) ==
    IF k = "mapper" THEN tag.mapper ELSE IF k = "blah" THEN tag.blah ELSE <<>>

(* ----------------------------------------------------------- FieldMapper *)
ApplyFieldMapper(fm, field) ==
    IF fm = "ToLower" THEN ToLower(field) ELSE field

NoPanic == <<>>

(* ---------------------------------------------------------- MapperWithKey *)
RemoveAt_TruncateOnly(cs, i) == SubSeq(cs, 1, Len(cs) - 1)

RemoveAt(cs, i) ==
    SubSeq([cs EXCEPT ![i + 1] = cs[Len(cs)]], 1, Len(cs) - 1)

ResolveCol(f, k, fm) ==
    IF TagGet(f.Tag, k) # <<>> THEN TagGet(f.Tag, k)
    ELSE IF fm # "nil" THEN ApplyFieldMapper(fm, f.Name)
    ELSE f.Name

Ignored(f, k) ==
    TagGet(f.Tag, k) # <<>> /\ HasSuffix(TagGet(f.Tag, k), IgnoreSuffix)

AppendField_Position(m, col, i) ==
    [m EXCEPT !.cols = Append(@, col), !.fields = Append(@, Len(m.cols))]

AppendField(m, col, i) ==
    [m EXCEPT !.cols = Append(@, col), !.fields = Append(@, i)]

RECURSIVE BuildLoop(_, _, _, _, _, _)
BuildLoop(t, k, jk, i, cs, m) ==
    IF i >= Len(t.fields) THEN [panic |-> NoPanic, columns |-> cs, m |-> m]
    ELSE LET f == t.fields[i + 1] IN
         IF ~IsExported(f) THEN BuildLoop(t, k, jk, i + 1, cs, m)
         ELSE IF Ignored(f, k) THEN BuildLoop(t, k, jk, i + 1, cs, m)
         ELSE LET col == ResolveCol(f, k, m.FieldMapper)
                  ix == index(cs, col)
              IN IF ~jk /\ ix = -1 THEN BuildLoop(t, k, jk, i + 1, cs, m)
                 ELSE LET cs2 == IF jk THEN cs ELSE RemoveAt(cs, ix) IN
                      IF index(m.cols, col) # -1
                      THEN [panic |-> <<"Field ">> \o col
                                        \o <<" is mapped more than once">>,
                            columns |-> cs2, m |-> m]
                      ELSE BuildLoop(t, k, jk, i + 1, cs2,
                                     AppendField(m, col, i))

NoType == [kind |-> "none", elem |-> "none", fields |-> <<>>]

NilMapper ==
    [fields |-> <<>>, cols |-> <<>>, target |-> NoType,
     Comma |-> ",", Mark |-> "?", FieldMapper |-> "nil"]

Failed(msg) == [panic |-> msg, m |-> NilMapper]

MapperWithKey(t, k, cols) ==
    IF k = "" THEN Failed(<<"Mapper MUST have a non empty struct tag key.">>)
    ELSE IF (IF Kind(t) = "ptr" THEN ElemKind(t) ELSE Kind(t)) # "struct"
    THEN Failed(<<"Mapper first argument MUST be a struct or a struct pointer">>)
    ELSE IF Len(cols) = 0
    THEN Failed(<<"Mapper MUST select at least one field">>)
    ELSE IF Kind(t) # "struct"
    THEN Failed(<<"reflect: NumField of non-struct type">>)
    ELSE LET m0 == [fields |-> <<>>, cols |-> <<>>, target |-> t,
                    Comma |-> ",", Mark |-> "?", FieldMapper |-> "ToLower"]
             r == BuildLoop(t, k, joker(cols), 0, cols, m0)
         IN IF r.panic # NoPanic THEN Failed(r.panic)
            ELSE IF ~joker(cols) /\ Len(r.columns) # 0
            THEN Failed(<<"Some fields are missing from target: ">>
                          \o Join(r.columns, <<",">>))
            ELSE [panic |-> NoPanic, m |-> r.m]

Mapper(t, cols) == MapperWithKey(t, "mapper", cols)

(* ----------------------------------------------------------------- Subset *)
RECURSIVE SubsetByRequest(_, _, _, _)
SubsetByRequest(m, cols, j, nm) ==
    IF j > Len(cols) THEN nm
    ELSE IF index(m.cols, cols[j]) # -1 /\ index(nm.cols, cols[j]) = -1
    THEN SubsetByRequest(m, cols, j + 1,
             [nm EXCEPT !.cols = Append(@, cols[j]),
                        !.fields =
                            Append(@, m.fields[index(m.cols, cols[j]) + 1])])
    ELSE SubsetByRequest(m, cols, j + 1, nm)

SubsetLoop_RequestOrder(m, cols, i, nm) == SubsetByRequest(m, cols, 1, nm)

RECURSIVE SubsetLoop(_, _, _, _)
SubsetLoop(m, cols, i, nm) ==
    IF i >= Len(m.cols) THEN nm
    ELSE IF index(cols, m.cols[i + 1]) # -1
    THEN SubsetLoop(m, cols, i + 1,
             [nm EXCEPT !.cols = Append(@, m.cols[i + 1]),
                        !.fields = Append(@, m.fields[i + 1])])
    ELSE SubsetLoop(m, cols, i + 1, nm)

Subset_AliasEmpty(m, cols) ==
    LET nm == [fields |-> <<>>, cols |-> <<>>, target |-> m.target,
               Comma |-> m.Comma, Mark |-> m.Mark,
               FieldMapper |-> m.FieldMapper]
    IN IF Len(cols) = 0 \/ joker(cols) THEN [alias |-> TRUE, nm |-> m]
       ELSE [alias |-> FALSE, nm |-> SubsetLoop(m, cols, 0, nm)]

(* alias = TRUE: the receiver itself is returned, no new object. *)
Subset(m, cols) ==
    LET nm == [fields |-> <<>>, cols |-> <<>>, target |-> m.target,
               Comma |-> m.Comma, Mark |-> m.Mark,
               FieldMapper |-> m.FieldMapper]
    IN IF Len(cols) = 0 THEN [alias |-> FALSE, nm |-> nm]
       ELSE IF joker(cols) THEN [alias |-> TRUE, nm |-> m]
       ELSE [alias |-> FALSE, nm |-> SubsetLoop(m, cols, 0, nm)]

(* ---------------------------------------------------------- ColumnsString *)
RECURSIVE SumLen(_, _)
SumLen(cols, extra) ==
    IF Len(cols) = 0 THEN 0
    ELSE Len(cols[1]) + extra + SumLen(Tail(cols), extra)

RECURSIVE WriteRest(_, _, _, _)
WriteRest(b, rest, comma, prefix) ==
    IF Len(rest) = 0 THEN b
    ELSE WriteRest(b \o <<comma>> \o prefix \o rest[1], Tail(rest),
                   comma, prefix)

GrowPanic == <<"strings.Builder.Grow: negative count">>

ColumnsStringPrefix(m, prefix) ==
    IF Len(m.cols) = 1 THEN [panic |-> NoPanic, out |-> prefix \o m.cols[1]]
    ELSE IF Len(m.cols) - 1 + SumLen(m.cols, Len(prefix)) < 0
    THEN [panic |-> GrowPanic, out |-> <<>>]
    ELSE [panic |-> NoPanic,
          out |-> WriteRest(prefix \o m.cols[1], Tail(m.cols),
                            m.Comma, prefix)]

ColumnsString(m) ==
    IF Len(m.cols) = 1 THEN [panic |-> NoPanic, out |-> m.cols[1]]
    ELSE IF Len(m.cols) - 1 + SumLen(m.cols, 0) < 0
    THEN [panic |-> GrowPanic, out |-> <<>>]
    ELSE [panic |-> NoPanic,
          out |-> WriteRest(m.cols[1], Tail(m.cols), m.Comma, <<>>)]

(* ---------------------------------------------------------- Addrs, Values *)
(* dest is [type, obj]: obj names the record instance held (or pointed to) *)
(* in mem, "none" for a value that is not a record.                        *)
AddrsLoop_Position(fields, dest, n, out) ==
    [panic |-> NoPanic,
     out |-> [k \in 1..Len(fields) |-> [obj |-> dest.obj, field |-> k - 1]]]

RECURSIVE AddrsLoop(_, _, _, _)
AddrsLoop(fields, dest, n, out) ==
    IF n > Len(fields) THEN [panic |-> NoPanic, out |-> out]
    ELSE IF fields[n] >= Len(dest.type.fields)
    THEN [panic |-> <<"reflect: Field index out of range">>, out |-> <<>>]
    ELSE IF ~IsExported(dest.type.fields[fields[n] + 1])
    THEN [panic |-> <<"reflect.Value.Interface: unexported field">>,
          out |-> <<>>]
    ELSE AddrsLoop(fields, dest, n + 1,
                   Append(out, [obj |-> dest.obj, field |-> fields[n]]))

Addrs(m, dest) ==
    IF Kind(dest.type) # "ptr"
    THEN [panic |-> <<"destination not a pointer">>, out |-> <<>>]
    ELSE IF ElemKind(dest.type) # "struct"
    THEN [panic |-> <<"destination not a struct pointer">>, out |-> <<>>]
    ELSE AddrsLoop(m.fields, dest, 1, <<>>)

(* Kind of the type reflect.Value itself, which is what Values tests. *)
ReflectValueKind == "struct"

RECURSIVE ValuesLoop(_, _, _, _, _)
ValuesLoop(fields, dest, store, n, out) ==
    IF n > Len(fields) THEN [panic |-> NoPanic, out |-> out]
    ELSE IF (IF Kind(dest.type) = "ptr" THEN ElemKind(dest.type)
             ELSE Kind(dest.type)) # "struct"
    THEN [panic |-> <<"reflect: call of reflect.Value.Field on non-struct">>,
          out |-> <<>>]
    ELSE IF fields[n] >= Len(dest.type.fields)
    THEN [panic |-> <<"reflect: Field index out of range">>, out |-> <<>>]
    ELSE IF ~IsExported(dest.type.fields[fields[n] + 1])
    THEN [panic |-> <<"reflect.Value.Interface: unexported field">>,
          out |-> <<>>]
    ELSE ValuesLoop(fields, dest, store, n + 1,
                    Append(out, store[dest.obj][fields[n] + 1]))

Values(m, dest, store) ==
    IF ReflectValueKind # "struct"
    THEN [panic |-> <<"destination not a struct">>, out |-> <<>>]
    ELSE ValuesLoop(m.fields, dest, store, 1, <<>>)

(* ---------------------------------------------------------------- options *)
WithFieldMapper(fm) ==
    [field |-> "FieldMapper", value |-> IF fm = "nil" THEN "Direct" ELSE fm]

WithComma(comma) == [field |-> "Comma", value |-> comma]

WithMark(mark) == [field |-> "Mark", value |-> mark]

ApplyOption(m, opt) ==
    IF opt.field = "Comma" THEN [m EXCEPT !.Comma = opt.value]
    ELSE IF opt.field = "Mark" THEN [m EXCEPT !.Mark = opt.value]
    ELSE [m EXCEPT !.FieldMapper = opt.value]

RECURSIVE SetOptions(_, _)
SetOptions(m, opts) ==
    IF Len(opts) = 0 THEN m
    ELSE SetOptions(ApplyOption(m, opts[1]), Tail(opts))

(* ------------------------------------------------------- input universes *)
NoTag == [mapper |-> <<>>, blah |-> <<>>]

FieldNames == {<<"A">>, <<"B">>, <<"b">>}

StructTags ==
    { NoTag,
      [mapper |-> <<"b">>, blah |-> <<>>],
      [mapper |-> <<"b">> \o IgnoreSuffix, blah |-> <<>>],
      [mapper |-> <<>>, blah |-> <<"b">>] }

StructFields == [Name : FieldNames, Tag : StructTags]

FieldLists ==
    { fl \in UNION { [1..n -> StructFields] : n \in 0..MaxFields } :
        \A i, j \in 1..Len(fl) : i # j => fl[i].Name # fl[j].Name }

StructOf(fl) == [kind |-> "struct", elem |-> "none", fields |-> fl]

PointerTo(t) == [kind |-> "ptr", elem |-> t.kind, fields |-> t.fields]

Elem(t) == [kind |-> t.elem, elem |-> "none", fields |-> t.fields]

IntType == [kind |-> "int", elem |-> "none", fields |-> <<>>]

StructTypes == { StructOf(fl) : fl \in FieldLists }

BuildTypes ==
    StructTypes \cup { PointerTo(t) : t \in StructTypes }
                \cup { IntType, PointerTo(IntType) }

TagKeys == {"", "mapper", "blah"}

ColumnNames == {<<"*">>, <<"a">>, <<"b">>, <<"c">>}

Requests == UNION { [1..n -> ColumnNames] : n \in 0..MaxReq }

NoRes == [op |-> "none"]

(* --------------------------------------- construction taken on its own   *)
InitBuild ==
    /\ target \in BuildTypes
    /\ key \in TagKeys
    /\ columns \in Requests
    /\ heap = <<>>
    /\ mem = <<>>
    /\ calls = 0
    /\ res = NoRes

CallMapper ==
    /\ res.op = "none"
    /\ LET r == Mapper(target, columns)
       IN res' = [op |-> "Mapper", key |-> "mapper",
                  panic |-> r.panic, m |-> r.m]
    /\ UNCHANGED <<target, key, columns, heap, mem, calls>>

CallMapperWithKey ==
    /\ res.op = "none"
    /\ LET r == MapperWithKey(target, key, columns)
       IN res' = [op |-> "MapperWithKey", key |-> key,
                  panic |-> r.panic, m |-> r.m]
    /\ UNCHANGED <<target, key, columns, heap, mem, calls>>

NextBuild == CallMapper \/ CallMapperWithKey

SpecBuild == InitBuild /\ [][NextBuild]_vars

(* ------------------------------------------- a program using the package *)
Untagged(name) == [Name |-> name, Tag |-> NoTag]

(* The program's record type, in the manner of the tests' M: a tagged     *)
(* field, a non-exported field and an untagged exported field.            *)
Record ==
    StructOf(<<[Name |-> <<"A">>,
                Tag |-> [mapper |-> <<"a", "b">>, blah |-> <<>>]],
               Untagged(<<"b">>),
               Untagged(<<"B">>)>>)

OtherRecord == StructOf(<<Untagged(<<"B">>), Untagged(<<"A">>)>>)

FieldValues == {"zero", "v"}

Dests ==
    { [type |-> PointerTo(Record), obj |-> "x"],
      [type |-> Record, obj |-> "x"],
      [type |-> PointerTo(OtherRecord), obj |-> "y"],
      [type |-> OtherRecord, obj |-> "y"],
      [type |-> IntType, obj |-> "none"],
      [type |-> PointerTo(IntType), obj |-> "none"] }

SubsetRequests ==
    UNION { [1..n -> {<<"*">>, <<"a", "b">>, <<"b">>}] :
              n \in 0..MaxSub }

Options ==
    { WithComma(";"), WithMark("$"), WithFieldMapper("nil") }

OptionLists == UNION { [1..n -> Options] : n \in 1..MaxOpts }

Prefixes == { <<>>, <<"t", ".">> }

Init ==
    /\ target = Record
    /\ key = "mapper"
    /\ columns = <<>>
    /\ heap = <<>>
    /\ mem = [x |-> [n \in 1..Len(Record.fields) |-> "zero"],
              y |-> [n \in 1..Len(OtherRecord.fields) |-> "zero"]]
    /\ calls = 0
    /\ res = NoRes

(* One more call into the package, of at most MaxCalls. *)
Called == calls < MaxCalls /\ calls' = calls + 1

New ==
    /\ Called
    /\ Len(heap) < MaxObjects
    /\ \E t \in {target, PointerTo(target)}, cols \in SubsetRequests :
         LET r == Mapper(t, cols) IN
         /\ heap' = IF r.panic = NoPanic THEN Append(heap, r.m) ELSE heap
         /\ res' = [op |-> "New", h |-> 0, arg |-> <<>>, panic |-> r.panic,
                    ret |-> IF r.panic = NoPanic THEN Len(heap) + 1 ELSE 0,
                    out |-> <<>>]
    /\ UNCHANGED <<target, key, columns, mem>>

CallSubset ==
    /\ Called
    /\ \E h \in 1..Len(heap), cols \in SubsetRequests :
         LET r == Subset(heap[h], cols) IN
         /\ r.alias \/ Len(heap) < MaxObjects
         /\ heap' = IF r.alias THEN heap ELSE Append(heap, r.nm)
         /\ res' = [op |-> "Subset", h |-> h, arg |-> cols, panic |-> NoPanic,
                    ret |-> IF r.alias THEN h ELSE Len(heap) + 1,
                    out |-> <<>>]
    /\ UNCHANGED <<target, key, columns, mem>>

CallSetOptions ==
    /\ Called
    /\ \E h \in 1..Len(heap), opts \in OptionLists :
         /\ heap' = [heap EXCEPT ![h] = SetOptions(heap[h], opts)]
         /\ res' = [op |-> "SetOptions", h |-> h, arg |-> <<>>,
                    panic |-> NoPanic, ret |-> h, out |-> <<>>]
    /\ UNCHANGED <<target, key, columns, mem>>

(* Direct assignment to one of the exported fields Comma, Mark, FieldMapper. *)
Assign ==
    /\ Called
    /\ \E h \in 1..Len(heap), opt \in Options :
         /\ heap' = [heap EXCEPT ![h] = ApplyOption(heap[h], opt)]
         /\ res' = [op |-> "Assign", h |-> h, arg |-> <<>>,
                    panic |-> NoPanic, ret |-> 0, out |-> <<>>]
    /\ UNCHANGED <<target, key, columns, mem>>

CallColumnsString ==
    /\ Called
    /\ \E h \in 1..Len(heap) :
         LET r == ColumnsString(heap[h]) IN
         /\ res' = [op |-> "ColumnsString", h |-> h, arg |-> <<>>,
                    panic |-> r.panic, ret |-> 0, out |-> r.out]
    /\ UNCHANGED <<target, key, columns, heap, mem>>

CallColumnsStringPrefix ==
    /\ Called
    /\ \E h \in 1..Len(heap), prefix \in Prefixes :
         LET r == ColumnsStringPrefix(heap[h], prefix) IN
         /\ res' = [op |-> "ColumnsStringPrefix", h |-> h, arg |-> prefix,
                    panic |-> r.panic, ret |-> 0, out |-> r.out]
    /\ UNCHANGED <<target, key, columns, heap, mem>>

CallAddrs ==
    /\ Called
    /\ \E h \in 1..Len(heap), dest \in Dests :
         LET r == Addrs(heap[h], dest) IN
         /\ res' = [op |-> "Addrs", h |-> h, arg |-> dest,
                    panic |-> r.panic, ret |-> 0, out |-> r.out]
    /\ UNCHANGED <<target, key, columns, heap, mem>>

CallValues ==
    /\ Called
    /\ \E h \in 1..Len(heap), dest \in Dests :
         LET r == Values(heap[h], dest, mem) IN
         /\ res' = [op |-> "Values", h |-> h, arg |-> dest,
                    panic |-> r.panic, ret |-> 0, out |-> r.out]
    /\ UNCHANGED <<target, key, columns, heap, mem>>

(* The caller stores v through the k-th address returned by Addrs. *)
WriteThrough ==
    /\ res.op \in {"Addrs", "Write"}
    /\ res.panic = NoPanic
    /\ \E k \in 1..Len(res.out), v \in FieldValues :
         /\ mem' = [mem EXCEPT ![res.out[k].obj][res.out[k].field + 1] = v]
         /\ res' = [res EXCEPT !.op = "Write", !.ret = k]
    /\ UNCHANGED <<target, key, columns, heap, calls>>

(* Construction, subsetting, configuration and the column strings. *)
Next ==
    \/ New
    \/ CallSubset
    \/ CallSetOptions
    \/ Assign
    \/ CallColumnsString
    \/ CallColumnsStringPrefix

Spec == Init /\ [][Next]_vars

(* Construction, subsetting and binding to record instances. *)
NextBind ==
    \/ New
    \/ CallSubset
    \/ CallAddrs
    \/ CallValues
    \/ WriteThrough

SpecBind == Init /\ [][NextBind]_vars

(* ------------------------------------------- vocabulary of the properties *)
IsBuild == res.op \in {"Mapper", "MapperWithKey"}

Succeeded == res.panic = NoPanic

OnRecord == IsBuild /\ target.kind = "struct" /\ res.key # ""

DuplicateMsg(c) == <<"Field ">> \o c \o <<" is mapped more than once">>

MissingHead == "Some fields are missing from target: "

NonRecordMsg == <<"Mapper first argument MUST be a struct or a struct pointer">>

Range(s) == { s[k] : k \in 1..Len(s) }

Count(s, x) == Cardinality({ k \in 1..Len(s) : s[k] = x })

Min(a, b) == IF a <= b THEN a ELSE b

RECURSIVE Ascending(_)
Ascending(S) ==
    IF S = {} THEN <<>>
    ELSE LET lo == CHOOSE x \in S : \A y \in S : x <= y
         IN <<lo>> \o Ascending(S \ {lo})

RECURSIVE SplitFrom(_, _, _)
SplitFrom(s, sep, piece) ==
    IF Len(s) = 0 THEN <<piece>>
    ELSE IF s[1] = sep THEN <<piece>> \o SplitFrom(Tail(s), sep, <<>>)
    ELSE SplitFrom(Tail(s), sep, Append(piece, s[1]))

Split(s, sep) == SplitFrom(s, sep, <<>>)

Perms(s) ==
    { [k \in 1..Len(s) |-> s[p[k]]] : p \in Permutations(1..Len(s)) }

(* The documented naming rule: the tag value when there is one, otherwise  *)
(* the lowercased declared name.                                            *)
DocName(f, k) ==
    IF TagGet(f.Tag, k) # <<>> THEN TagGet(f.Tag, k)
    ELSE [n \in 1..Len(f.Name) |-> LowerOf(f.Name[n])]

(* Declaration indexes of the exported fields not tagged ",ignore". *)
Eligible(t, k) ==
    { i \in 0..(Len(t.fields) - 1) :
        /\ t.fields[i + 1].Name[1] \in Upper
        /\ ~HasSuffix(TagGet(t.fields[i + 1].Tag, k), IgnoreSuffix) }

FieldsNamed(t, k, c) ==
    { i \in Eligible(t, k) : DocName(t.fields[i + 1], k) = c }

Clash(t, k) ==
    { c \in { DocName(t.fields[i + 1], k) : i \in Eligible(t, k) } :
        Cardinality(FieldsNamed(t, k, c)) >= 2 }

C2_ExplicitOrder ==
    (OnRecord /\ ~joker(columns) /\ Succeeded) =>
        /\ Len(res.m.cols) = Len(columns)
        /\ Len(res.m.fields) = Len(columns)
        /\ Range(res.m.cols) = Range(columns)
        /\ \A c \in Range(columns) : Count(res.m.cols, c) = 1
        /\ \A n \in 1..Len(res.m.fields) :
              /\ res.m.fields[n] \in Eligible(target, res.key)
              /\ DocName(target.fields[res.m.fields[n] + 1], res.key)
                    = res.m.cols[n]
              /\ n > 1 => res.m.fields[n - 1] < res.m.fields[n]
        /\ \A p \in Perms(columns) :
              LET r == MapperWithKey(target, res.key, p) IN
              /\ r.panic = NoPanic
              /\ r.m.cols = res.m.cols
              /\ r.m.fields = res.m.fields

C2_Witness ==
    /\ OnRecord /\ Succeeded
    /\ columns = << <<"b">>, <<"a">> >>
    /\ res.m.cols = << <<"a">>, <<"b">> >>
    /\ res.m.fields = <<0, 2>>

(* C3: for a non-empty request, two different exported, non-ignored fields *)
(* selected by the request and resolving to the same name c make build     *)
(* fail with "Field c is mapped more than once"; in explicit mode this is  *)
(* whenever c is listed in the request.                                    *)
C3_DuplicateFails ==
    (OnRecord /\ Len(columns) > 0) =>
        LET sel == { c \in Clash(target, res.key) :
                       joker(columns) \/ c \in Range(columns) }
        IN sel # {} => \E c \in sel : res.panic = DuplicateMsg(c)

(* C4: an explicit request fails with the missing-fields message exactly   *)
(* when, all fields iterated, some requested entry was not consumed, and   *)
(* the message lists exactly the multiset of unconsumed names.             *)
C4_MissingExactly ==
    (OnRecord /\ ~joker(columns)) =>
        LET nf(c) == Cardinality(FieldsNamed(target, res.key, c))
            rc(c) == Count(columns, c)
            iterated == /\ Len(columns) > 0
                        /\ ~\E c \in Range(columns) : nf(c) >= 2 /\ rc(c) >= 2
            left(c) == rc(c) - Min(rc(c), nf(c))
            missing == res.panic # NoPanic /\ res.panic[1] = MissingHead
            listed == Split(Tail(res.panic), ",")
        IN /\ missing <=> (iterated /\ \E c \in Range(columns) : left(c) > 0)
           /\ missing =>
                 /\ Range(listed) \subseteq Range(columns)
                 /\ \A c \in Range(columns) : Count(listed, c) = left(c)

C4_Witness ==
    /\ OnRecord /\ ~joker(columns)
    /\ columns = << <<"a">>, <<"c">>, <<"a">> >>
    /\ FieldsNamed(target, res.key, <<"a">>) # {}
    /\ res.panic # NoPanic /\ res.panic[1] = MissingHead
    /\ Len(Split(Tail(res.panic), ",")) = 2

(* C5: build on a reference to a record ends as build on the record does   *)
(* (same columns and positions, or same failure), and the non-record       *)
(* failure is raised only when the dereferenced argument is not a record.  *)
C5_PointerSameOutcome ==
    (IsBuild /\ target.kind = "ptr") =>
        LET r == MapperWithKey(Elem(target), res.key, columns) IN
        /\ res.panic = r.panic
        /\ res.m.cols = r.m.cols
        /\ res.m.fields = r.m.fields
        /\ res.panic = NonRecordMsg => target.elem # "struct"

(* C6: Subset with a request without the wildcard never fails and returns  *)
(* exactly the (column, field position) pairs of the receiver whose column *)
(* occurs in the request, in the receiver's order; unknown names are       *)
(* ignored, an empty request yields zero columns and fields, and a subset  *)
(* of a subset has the columns of the subset by the common names.          *)
C6_SubsetEntries ==
    (res.op = "Subset" /\ ~joker(res.arg)) =>
        LET m == heap[res.h]
            s == heap[res.ret]
            K == Ascending({ n \in 1..Len(m.cols) :
                               m.cols[n] \in Range(res.arg) })
        IN /\ res.panic = NoPanic
           /\ s.cols = [n \in 1..Len(K) |-> m.cols[K[n]]]
           /\ s.fields = [n \in 1..Len(K) |-> m.fields[K[n]]]
           /\ Len(res.arg) = 0 => (s.cols = <<>> /\ s.fields = <<>>)
           /\ \A R2 \in SubsetRequests :
                 ~joker(R2) =>
                    LET common ==
                          SelectSeq(res.arg, LAMBDA c : c \in Range(R2))
                    IN Subset(s, R2).nm.cols = Subset(m, common).nm.cols

C6_Witness ==
    /\ res.op = "Subset"
    /\ res.arg = << <<"b">>, <<"a", "b">> >>
    /\ res.ret # res.h
    /\ heap[res.h].fields = <<0, 2>>
    /\ heap[res.ret].cols = << <<"a", "b">>, <<"b">> >>
    /\ heap[res.ret].fields = <<0, 2>>

(* C7: a Subset without the wildcard (an empty one included) returns a     *)
(* Correspondence distinct from every existing one and leaves the receiver *)
(* as it was; SetOptions and direct assignment change the receiver only,   *)
(* so the subset and its parent never affect each other; a Subset with the *)
(* wildcard returns the receiver itself.                                   *)
C7_Step ==
    /\ res'.op \in {"SetOptions", "Assign"} =>
          /\ Len(heap') = Len(heap)
          /\ \A g \in 1..Len(heap) : g # res'.h => heap'[g] = heap[g]
          /\ heap'[res'.h].cols = heap[res'.h].cols
          /\ heap'[res'.h].fields = heap[res'.h].fields
    /\ res'.op = "Subset" =>
          IF joker(res'.arg)
          THEN res'.ret = res'.h /\ heap' = heap
          ELSE /\ res'.ret \notin 1..Len(heap)
               /\ res'.ret \in 1..Len(heap')
               /\ \A g \in 1..Len(heap) : heap'[g] = heap[g]
               /\ heap'[res'.ret].Comma = heap[res'.h].Comma
               /\ heap'[res'.ret].Mark = heap[res'.h].Mark
               /\ heap'[res'.ret].FieldMapper = heap[res'.h].FieldMapper

C8_WrongArgumentFails ==
    /\ (res.op = "Addrs"
          /\ res.arg.type # PointerTo(heap[res.h].target))
        => res.panic # NoPanic
    /\ (res.op = "Values"
          /\ res.arg.type \notin
                {heap[res.h].target, PointerTo(heap[res.h].target)})
        => res.panic # NoPanic

(* C9: on an instance of the target type Addrs returns one reference and   *)
(* Values one value per column, position k belonging to the field whose    *)
(* resolved name is Columns()[k]; a store through the k-th address changes *)
(* exactly that field, and Values returns the direct field reads.          *)
TheField(c) == CHOOSE f \in FieldsNamed(Record, "mapper", c) : TRUE

C9_Step ==
    /\ (res'.op = "Addrs" /\ res'.arg = [type |-> PointerTo(Record),
                                         obj |-> "x"]) =>
          LET m == heap[res'.h] IN
          /\ res'.panic = NoPanic
          /\ Len(res'.out) = Len(m.cols)
          /\ \A k \in 1..Len(m.cols) :
                res'.out[k] = [obj |-> "x", field |-> TheField(m.cols[k])]
    /\ (res'.op = "Values" /\ res'.arg.obj = "x") =>
          LET m == heap[res'.h] IN
          /\ res'.panic = NoPanic
          /\ Len(res'.out) = Len(m.cols)
          /\ \A k \in 1..Len(m.cols) :
                res'.out[k] = mem.x[TheField(m.cols[k]) + 1]
    /\ (res'.op = "Write" /\ res.arg = [type |-> PointerTo(Record),
                                        obj |-> "x"]) =>
          LET f == TheField(heap[res.h].cols[res'.ret]) IN
          /\ mem'.y = mem.y
          /\ \A g \in 1..Len(mem.x) : g # f + 1 => mem'.x[g] = mem.x[g]
          /\ \E v \in FieldValues : mem' = [mem EXCEPT !.x[f + 1] = v]

C9_BindByColumn == [][C9_Step]_vars

C9_Witness ==
    /\ res.op = "Values" /\ res.arg.obj = "x"
    /\ heap[res.h].cols = << <<"a", "b">>, <<"b">> >>
    /\ mem.x = <<"zero", "zero", "v">>
    /\ res.out = <<"zero", "v">>

(* C10: ColumnsString and ColumnsStringPrefix return without failure on    *)
(* every Correspondence, the zero-column one included, and splitting the   *)
(* result on the separator gives back Columns(), each piece carrying the   *)
(* prefix for ColumnsStringPrefix.                                         *)
C10_ColumnsRoundTrip ==
    (res.op \in {"ColumnsString", "ColumnsStringPrefix"}) =>
        LET m == heap[res.h]
            pieces == Split(res.out, m.Comma)
            prefix == IF res.op = "ColumnsString" THEN <<>> ELSE res.arg
        IN /\ res.panic = NoPanic
           /\ IF Len(m.cols) = 0 THEN res.out = <<>>
              ELSE pieces = [k \in 1..Len(m.cols) |-> prefix \o m.cols[k]]

====
